---- MODULE Spec2Model ----
(***************************************************************************)
(* A model of RenderSystem (the Forward+ pipeline orchestrator): Init,     *)
(* Shutdown, Render, InitView, Update, the buffer set-up helpers and the   *)
(* light animation step UpdateLights; and of Model (the model loader):     *)
(* its constructor, loadModel, processNode, processMesh, loadMatTextures.  *)
(*                                                                         *)
(* GL objects are modelled by what the program asks of the driver: a       *)
(* texture or renderbuffer by the dimensions of its storage, a buffer      *)
(* object by its handle and the number of elements allocated for it, a     *)
(* framebuffer by its size and the storage attached to it.  The commands   *)
(* one Render call submits are kept, in submission order, in glLog.        *)
(*                                                                         *)
(* Lengths: light coordinates are counted in units of 4.5 world units and  *)
(* delta times in whole seconds, so that the step 4.5 * dt of UpdateLights *)
(* is the integer dt and every value is exact in float.                    *)
(***************************************************************************)
EXTENDS Integers, Sequences, FiniteSets, TLC

VARIABLES
    phase,                       \* where the process is: Constructed, Initialized, Aborted, ShutDown
    config,                      \* the rendererNode Init was given (kept for reference)
    m_width, m_height,           \* stored viewport size
    m_workGroupsX, m_workGroupsY,\* tile grid of the culling dispatch
    m_projMatrix,                \* projection matrix
    ubo,                         \* contents of the matrices uniform buffer: [proj, view]
    viewport,                    \* glViewport rectangle size
    m_depthFBO,                  \* depth framebuffer: [w, h, depth]
    m_hdrFBO,                    \* HDR framebuffer: [w, h, color, depth]
    m_uboMatrices,               \* buffer handles (0: none)
    m_lightBuffer,
    m_visibleLightIndicesBuffer,
    lightBufferLen,              \* PointLight elements allocated for m_lightBuffer
    visibleIndicesLen,           \* VisibleLightIndex elements allocated for the index buffer
    lights,                      \* the mapped light buffer: sequence of [Position]
    lights0,                     \* the lights as setupLightStorageBuffer left them
    updates,                     \* the delta times of the Update calls so far
    resized,                     \* the size Input reported to the last Update (NoDims: none)
    m_shaderCache,               \* name -> [shaders, deleted]
    staticShaders,               \* names bound by Render's function-local statics
    renderResult,                \* outcome of the last Render call
    glLog,                       \* commands submitted by the last Render call
    modelLoaded,                 \* Model: "no" before construction, then what loadModel returned
    m_path,                      \* Model: directory of the model file, as path segments
    m_meshes,                    \* Model: the meshes processed, each with its textures
    m_loadedTextures             \* Model: the textures loaded for the whole model

renderVars == << phase, config, m_width, m_height, m_workGroupsX, m_workGroupsY,
           m_projMatrix, ubo, viewport, m_depthFBO, m_hdrFBO, m_uboMatrices,
           m_lightBuffer, m_visibleLightIndicesBuffer, lightBufferLen,
           visibleIndicesLen, lights, lights0, updates, resized, m_shaderCache,
           staticShaders, renderResult, glLog >>

loaderVars == << modelLoaded, m_path, m_meshes, m_loadedTextures >>

vars == << renderVars, loaderVars >>

(***************************************************************************)
(* Bounds of the model.                                                    *)
(***************************************************************************)
\* number of lights in the buffer (stands for MAX_NUM_LIGHTS)
MAX_NUM_LIGHTS == 2
\* number of Update calls explored
MaxUpdates == 3
\* number of meshes in a scene
MaxMeshes == 3

(***************************************************************************)
(* Values.                                                                 *)
(***************************************************************************)
NoHandle == 0
NoDims == << 0, 0 >>
NoMatrix == [num |-> 0, den |-> 0]

\* light volume, per axis (x, y, z).  RenderSystem.h, which sets it, is not among
\* the files modelled; the vertical lower bound is taken as 0, for which
\* wrapping modulo the upper bound and modulo the span are the same thing, so
\* that nothing shown about UpdateLights rests on the choice.
LIGHT_MIN_BOUNDS == << -4, 0, -2 >>
LIGHT_MAX_BOUNDS == <<  4, 8,  2 >>

RequiredPrograms == << "DepthPassShader", "LightCullShader", "PBRShader", "PostProcessShader" >>

RECURSIVE GCD(_, _)
GCD(a, b) == IF b = 0 THEN a ELSE GCD(b, a % b)

\* Camera::GetProjMatrix(width, height): a perspective matrix, which depends on
\* the size through the aspect ratio width / height only
GetProjMatrix(w, h) == [num |-> w \div GCD(w, h), den |-> h \div GCD(w, h)]

\* fmod(a, b) for b > 0: the remainder of the division truncated toward zero,
\* which has the sign of a
fmod(a, b) == IF a >= 0 THEN a % b ELSE -((-a) % b)

(***************************************************************************)
(* Inputs.                                                                 *)
(***************************************************************************)
\* width and height attributes of the renderer node, and the sizes Input reports
Viewports == { << 8, 8 >>, << 9, 16 >>, << 20, 12 >> }

Program(name, shaders) == [name |-> name, shaders |-> shaders]

BasePrograms ==
    << Program("DepthPassShader", << "depth.vs", "depth.fs" >>),
       Program("LightCullShader", << "cull.cs" >>),
       Program("PBRShader", << "pbr.vs", "pbr.fs" >>) >>

\* the Program children of the renderer node: all four required programs, the
\* same with PBRShader listed a second time, and one without PostProcessShader
ProgramLists ==
    { BasePrograms \o << Program("PostProcessShader", << "post.vs", "post.fs" >>) >>,
      BasePrograms \o << Program("PostProcessShader", << "post.vs", "post.fs" >>),
                         Program("PBRShader", << "pbr.vs", "wire.fs" >>) >>,
      BasePrograms }

Configs(vps, lists) ==
    { [width |-> vp[1], height |-> vp[2], programs |-> ps] : vp \in vps, ps \in lists }

\* what the driver answers during Init: whether GLAD loads, and the handle each
\* glGenBuffers yields (0: no buffer object)
DriverOutcomes ==
    [glad : BOOLEAN, ubo : {NoHandle, 1}, light : {NoHandle, 2}, index : {NoHandle, 3}]

AllCreated == [glad |-> TRUE, ubo |-> 1, light |-> 2, index |-> 3]

\* values of three successive dist(gen) draws, in quarters (0 .. 3 stand for
\* 0, 1/4, 1/2, 3/4)
DrawTriples == { << 0, 0, 0 >>, << 3, 3, 3 >>, << 1, 2, 3 >>, << 2, 0, 1 >> }

\* the draws of every light
DrawStreams(triples) == [1 .. MAX_NUM_LIGHTS -> triples]

\* render lists: each model is given by its number of meshes
RenderLists == { << >>, << 1 >>, << 2, 1 >>, << 0, 2 >> }

\* camera view matrices (by identity)
ViewMatrices == { "viewA", "viewB" }

NoResize == NoDims

(***************************************************************************)
(* RenderSystem::Init and its helpers.                                     *)
(***************************************************************************)
\* (width + width % 8) / 8; the operands are unsigned int, and the sum does not
\* wrap for any size below 2^32 - 7
WorkGroups(d) == (d + (d % 8)) \div 8

\* GLFramebuffer(name, width, height): a framebuffer with nothing attached
GLFramebuffer(w, h) == [w |-> w, h |-> h, color |-> NoDims, depth |-> NoDims]

\* GLFramebuffer::Reset(width, height): the framebuffer object is recreated
FBReset(fbo, w, h) == GLFramebuffer(w, h)

\* GLFramebuffer::Resize(width, height): attachments are recreated at the new size
FBResize(fbo, w, h) ==
    [w |-> w, h |-> h,
     color |-> IF fbo.color = NoDims THEN NoDims ELSE << w, h >>,
     depth |-> IF fbo.depth = NoDims THEN NoDims ELSE << w, h >>]

\* try_emplace taken for insert_or_assign: a present key has its program replaced
insert_or_assign(cache, name, shaders) ==
    [n \in DOMAIN cache \cup { name } |->
        IF n = name THEN [shaders |-> shaders, deleted |-> FALSE] ELSE cache[n]]

\* m_shaderCache.try_emplace(name, name, shaders): nothing is constructed and
\* nothing is stored when the key is present
try_emplace(cache, name, shaders) ==
    IF name \in DOMAIN cache
    THEN cache
    ELSE cache @@ (name :> [shaders |-> shaders, deleted |-> FALSE])

\* the loop over the Program children
RECURSIVE CompilePrograms(_, _)
CompilePrograms(cache, programs) ==
    IF programs = << >>
    THEN cache
    ELSE CompilePrograms(try_emplace(cache, Head(programs).name, Head(programs).shaders),
                         Tail(programs))

EmptyCache == [n \in {} |-> [shaders |-> << >>, deleted |-> FALSE]]

\* glBufferData on the buffer just generated and bound: with handle 0 nothing
\* is bound and nothing is allocated
Allocated(handle, len) == IF handle = NoHandle THEN 0 ELSE len

\* RandomPosition: position[i] = dis(gen) * (max - min) + min
RandomPosition(d) ==
    [i \in 1 .. 3 |->
        LIGHT_MIN_BOUNDS[i] + (d[i] * (LIGHT_MAX_BOUNDS[i] - LIGHT_MIN_BOUNDS[i])) \div 4]

\* the loop of setupLightStorageBuffer over the mapped buffer
setupLightStorageBuffer(draws) ==
    [i \in 1 .. MAX_NUM_LIGHTS |-> [Position |-> RandomPosition(draws[i])]]

\* setupDepthBuffer: a depth texture of m_width x m_height, attached as DEPTH
setupDepthBuffer(fbo, w, h) == [fbo EXCEPT !.depth = << w, h >>]

\* setupHDRBuffer: Reset, then a color texture and a depth renderbuffer of
\* m_width x m_height, attached as COLOR0 and DEPTH
setupHDRBuffer(fbo, w, h) ==
    [FBReset(fbo, w, h) EXCEPT !.color = << w, h >>, !.depth = << w, h >>]

Init ==
    /\ phase = "Constructed"
    /\ config = [width |-> 0, height |-> 0, programs |-> << >>]
    /\ m_width = 0
    /\ m_height = 0
    /\ m_workGroupsX = 0
    /\ m_workGroupsY = 0
    /\ m_projMatrix = NoMatrix
    /\ ubo = [proj |-> NoMatrix, view |-> "none"]
    /\ viewport = NoDims
    /\ m_depthFBO = GLFramebuffer(0, 0)
    /\ m_hdrFBO = GLFramebuffer(0, 0)
    /\ m_uboMatrices = NoHandle
    /\ m_lightBuffer = NoHandle
    /\ m_visibleLightIndicesBuffer = NoHandle
    /\ lightBufferLen = 0
    /\ visibleIndicesLen = 0
    /\ lights = << >>
    /\ lights0 = << >>
    /\ updates = << >>
    /\ resized = NoDims
    /\ m_shaderCache = EmptyCache
    /\ staticShaders = {}
    /\ renderResult = "none"
    /\ glLog = << >>
    /\ modelLoaded = "no"
    /\ m_path = << >>
    /\ m_meshes = << >>
    /\ m_loadedTextures = << >>

\* RenderSystem::Init(rendererNode)
RenderSystemInit(cfgs, outcomes, streams) ==
    /\ phase = "Constructed"
    /\ \E cfg \in cfgs, drv \in outcomes, draws \in streams :
        IF ~drv.glad
        THEN \* gladLoadGLLoader failed: abort before anything is stored
             /\ phase' = "Aborted"
             /\ UNCHANGED << config, m_width, m_height, m_workGroupsX, m_workGroupsY,
                             m_projMatrix, ubo, viewport, m_depthFBO, m_hdrFBO,
                             m_uboMatrices, m_lightBuffer, m_visibleLightIndicesBuffer,
                             lightBufferLen, visibleIndicesLen, lights, lights0, updates, resized,
                             m_shaderCache, staticShaders, renderResult, glLog >>
        ELSE /\ config' = cfg
             /\ m_width' = cfg.width
             /\ m_height' = cfg.height
             /\ m_workGroupsX' = WorkGroups(cfg.width)
             /\ m_workGroupsY' = WorkGroups(cfg.height)
             /\ m_shaderCache' = CompilePrograms(m_shaderCache, cfg.programs)
             /\ m_uboMatrices' = drv.ubo
             \* setupLightBuffers
             /\ m_lightBuffer' = drv.light
             /\ lightBufferLen' = Allocated(drv.light, MAX_NUM_LIGHTS)
             /\ m_visibleLightIndicesBuffer' = drv.index
             /\ visibleIndicesLen' =
                    Allocated(drv.index,
                              WorkGroups(cfg.width) * WorkGroups(cfg.height) * MAX_NUM_LIGHTS)
             /\ IF drv.light = NoHandle
                THEN \* setupLightStorageBuffer aborts
                     /\ phase' = "Aborted"
                     /\ m_depthFBO' = GLFramebuffer(cfg.width, cfg.height)
                     /\ m_hdrFBO' = GLFramebuffer(cfg.width, cfg.height)
                     /\ UNCHANGED << lights, lights0, viewport >>
                ELSE /\ phase' = "Initialized"
                     /\ lights' = setupLightStorageBuffer(draws)
                     /\ lights0' = setupLightStorageBuffer(draws)
                     /\ m_depthFBO' =
                            setupDepthBuffer(GLFramebuffer(cfg.width, cfg.height),
                                             cfg.width, cfg.height)
                     /\ m_hdrFBO' =
                            setupHDRBuffer(GLFramebuffer(cfg.width, cfg.height),
                                           cfg.width, cfg.height)
                     /\ viewport' = << cfg.width, cfg.height >>
             /\ UNCHANGED << m_projMatrix, ubo, updates, resized, staticShaders, renderResult,
                             glLog >>
    /\ UNCHANGED loaderVars

(***************************************************************************)
(* RenderSystem::Shutdown.                                                 *)
(***************************************************************************)
\* GLShaderProgram::DeleteProgram: the GL program object is deleted
DeleteProgram(program) == [program EXCEPT !.deleted = TRUE]

\* the loop over m_shaderCache: every program is deleted, the map keeps its entries
ShutdownCache(cache) == [n \in DOMAIN cache |-> DeleteProgram(cache[n])]

Shutdown ==
    /\ phase = "Initialized"
    /\ phase' = "ShutDown"
    /\ m_shaderCache' = ShutdownCache(m_shaderCache)
    /\ UNCHANGED << config, m_width, m_height, m_workGroupsX, m_workGroupsY,
                    m_projMatrix, ubo, viewport, m_depthFBO, m_hdrFBO, m_uboMatrices,
                    m_lightBuffer, m_visibleLightIndicesBuffer, lightBufferLen,
                    visibleIndicesLen, lights, lights0, updates, resized, staticShaders,
                    renderResult, glLog >>
    /\ UNCHANGED loaderVars

(***************************************************************************)
(* RenderSystem::Render.                                                   *)
(***************************************************************************)
NotFound == [shaders |-> << >>, deleted |-> FALSE, found |-> FALSE]

\* m_shaderCache.at(name): the entry, or std::out_of_range
CacheAt(cache, name) ==
    IF name \in DOMAIN cache
    THEN [shaders |-> cache[name].shaders, deleted |-> cache[name].deleted, found |-> TRUE]
    ELSE NotFound

\* position in RequiredPrograms of the first static whose initialisation throws
\* (0: none): a static already bound is not looked up again
FirstThrow(bound, cache) ==
    LET bad == { i \in 1 .. Len(RequiredPrograms) :
                    /\ RequiredPrograms[i] \notin bound
                    /\ ~CacheAt(cache, RequiredPrograms[i]).found }
    IN  IF bad = {} THEN 0 ELSE CHOOSE i \in bad : \A j \in bad : i <= j

\* the statics bound when the four declarations have run (or one has thrown)
BindStatics(bound, cache) ==
    IF FirstThrow(bound, cache) = 0
    THEN { RequiredPrograms[i] : i \in 1 .. Len(RequiredPrograms) }
    ELSE bound \cup { RequiredPrograms[i] : i \in 1 .. (FirstThrow(bound, cache) - 1) }

Cmd(op, fb, prog, x, y) == [op |-> op, fb |-> fb, prog |-> prog, x |-> x, y |-> y]

\* GLFramebuffer::Bind / Unbind: Unbind binds framebuffer 0
FBBind(which) == Cmd("BindFramebuffer", which, "-", 0, 0)
FBUnbind == Cmd("BindFramebuffer", "default", "-", 0, 0)

\* GLShaderProgram::Bind
ProgramBind(name) == Cmd("UseProgram", "-", name, 0, 0)

\* the draws of one model: one glDrawElements per mesh
MeshDraws(model, meshes) ==
    [j \in 1 .. meshes |-> Cmd("DrawElements", "-", "-", model, j)]

\* renderModels: the models of the render list in order
RECURSIVE renderModelsFrom(_, _)
renderModelsFrom(renderList, i) ==
    IF i > Len(renderList)
    THEN << >>
    ELSE MeshDraws(i, renderList[i]) \o renderModelsFrom(renderList, i + 1)

renderModels(renderList) == renderModelsFrom(renderList, 1)

\* renderQuad
renderQuad == << Cmd("DrawArrays", "-", "-", 0, 4) >>

\* the commands of Render before the statics are initialised
RenderPrologue == << Cmd("BindBuffer", "-", "-", 0, 0) >>

\* Render with the culling dispatch submitted after the shading draws
RenderCommandsSwapped(renderList, wgx, wgy) ==
    RenderPrologue
    \o << ProgramBind("DepthPassShader"), FBBind("depth"), Cmd("Clear", "-", "-", 0, 0) >>
    \o renderModels(renderList)
    \o << FBUnbind, ProgramBind("LightCullShader") >>
    \o << FBBind("hdr"), Cmd("Clear", "-", "-", 0, 0), ProgramBind("PBRShader") >>
    \o renderModels(renderList)
    \o << Cmd("DispatchCompute", "-", "-", wgx, wgy) >>
    \o << Cmd("SkyboxDraw", "-", "-", 0, 0) >>
    \o << FBUnbind, ProgramBind("PostProcessShader") >>
    \o renderQuad

\* the commands of one Render call, in submission order
RenderCommands(renderList, wgx, wgy) ==
    RenderPrologue
    \* Step 1: depth of the scene
    \o << ProgramBind("DepthPassShader"), FBBind("depth"), Cmd("Clear", "-", "-", 0, 0) >>
    \o renderModels(renderList)
    \o << FBUnbind >>
    \* Step 2: light culling
    \o << ProgramBind("LightCullShader"), Cmd("DispatchCompute", "-", "-", wgx, wgy) >>
    \* shading
    \o << FBBind("hdr"), Cmd("Clear", "-", "-", 0, 0), ProgramBind("PBRShader") >>
    \o renderModels(renderList)
    \o << Cmd("SkyboxDraw", "-", "-", 0, 0) >>
    \* post-processing
    \o << Cmd("BindFramebuffer", "default", "-", 0, 0), ProgramBind("PostProcessShader") >>
    \o renderQuad

Render(renderLists) ==
    /\ phase \in { "Initialized", "ShutDown" }
    /\ \E renderList \in renderLists :
        /\ staticShaders' = BindStatics(staticShaders, m_shaderCache)
        /\ IF FirstThrow(staticShaders, m_shaderCache) # 0
           THEN /\ renderResult' = "out_of_range"
                /\ glLog' = RenderPrologue
           ELSE /\ renderResult' = "ok"
                /\ glLog' = RenderCommands(renderList, m_workGroupsX, m_workGroupsY)
    /\ UNCHANGED << phase, config, m_width, m_height, m_workGroupsX, m_workGroupsY,
                    m_projMatrix, ubo, viewport, m_depthFBO, m_hdrFBO, m_uboMatrices,
                    m_lightBuffer, m_visibleLightIndicesBuffer, lightBufferLen,
                    visibleIndicesLen, lights, lights0, updates, resized, m_shaderCache >>
    /\ UNCHANGED loaderVars

(***************************************************************************)
(* RenderSystem::InitView, Update and UpdateLights.                        *)
(***************************************************************************)
\* glBufferSubData on m_uboMatrices: with handle 0 no buffer is bound and the
\* write is dropped
WriteUbo(handle, u, half, value) ==
    IF handle = NoHandle THEN u ELSE [u EXCEPT ![half] = value]

InitView ==
    /\ phase = "Initialized"
    /\ m_projMatrix' = GetProjMatrix(m_width, m_height)
    /\ ubo' = WriteUbo(m_uboMatrices, ubo, "proj", GetProjMatrix(m_width, m_height))
    /\ UNCHANGED << phase, config, m_width, m_height, m_workGroupsX, m_workGroupsY,
                    viewport, m_depthFBO, m_hdrFBO, m_uboMatrices, m_lightBuffer,
                    m_visibleLightIndicesBuffer, lightBufferLen, visibleIndicesLen,
                    lights, lights0, updates, resized, m_shaderCache, staticShaders,
                    renderResult, glLog >>
    /\ UNCHANGED loaderVars

\* the members and GL objects the resize branch of Update can reach
ViewState ==
    [m_width |-> m_width, m_height |-> m_height,
     m_workGroupsX |-> m_workGroupsX, m_workGroupsY |-> m_workGroupsY,
     m_projMatrix |-> m_projMatrix, ubo |-> ubo, viewport |-> viewport,
     m_depthFBO |-> m_depthFBO, m_hdrFBO |-> m_hdrFBO,
     lightBufferLen |-> lightBufferLen, visibleIndicesLen |-> visibleIndicesLen]

\* a resize branch that also resizes the HDR framebuffer
HandleResizeWithHDR(st, handle, w, h) ==
    [st EXCEPT !.m_width = w,
               !.m_height = h,
               !.m_projMatrix = GetProjMatrix(w, h),
               !.ubo = WriteUbo(handle, st.ubo, "proj", GetProjMatrix(w, h)),
               !.viewport = << w, h >>,
               !.m_depthFBO = FBResize(st.m_depthFBO, w, h),
               !.m_hdrFBO = FBResize(st.m_hdrFBO, w, h)]

\* the branch of Update taken when Input::ShouldResize()
HandleResize(st, handle, w, h) ==
    [st EXCEPT !.m_width = w,
               !.m_height = h,
               !.m_projMatrix = GetProjMatrix(w, h),
               !.ubo = WriteUbo(handle, st.ubo, "proj", GetProjMatrix(w, h)),
               !.viewport = << w, h >>,
               !.m_depthFBO = FBResize(st.m_depthFBO, w, h)]

\* UpdateLights(dt): the vertical coordinate of every light
UpdateLights(ls, dt) ==
    LET min == LIGHT_MIN_BOUNDS[2]
        max == LIGHT_MAX_BOUNDS[2]
    IN  [i \in DOMAIN ls |->
            [ls[i] EXCEPT !.Position[2] = fmod(@ + (-dt) - min + max, max) + min]]

Update(resizes, dts, views) ==
    /\ phase = "Initialized"
    /\ Len(updates) < MaxUpdates
    /\ \E rs \in resizes \cup { NoResize }, dt \in dts, view \in views :
        LET st == IF rs = NoResize
                  THEN ViewState
                  ELSE HandleResize(ViewState, m_uboMatrices, rs[1], rs[2])
        IN  /\ m_width' = st.m_width
            /\ m_height' = st.m_height
            /\ m_workGroupsX' = st.m_workGroupsX
            /\ m_workGroupsY' = st.m_workGroupsY
            /\ m_projMatrix' = st.m_projMatrix
            /\ ubo' = WriteUbo(m_uboMatrices, st.ubo, "view", view)
            /\ viewport' = st.viewport
            /\ m_depthFBO' = st.m_depthFBO
            /\ m_hdrFBO' = st.m_hdrFBO
            /\ lightBufferLen' = st.lightBufferLen
            /\ visibleIndicesLen' = st.visibleIndicesLen
            /\ lights' = UpdateLights(lights, dt)
            /\ updates' = Append(updates, dt)
            /\ resized' = rs
    /\ UNCHANGED << phase, config, m_uboMatrices, m_lightBuffer,
                    m_visibleLightIndicesBuffer, lights0, m_shaderCache,
                    staticShaders, renderResult, glLog >>
    /\ UNCHANGED loaderVars

(***************************************************************************)
(* Model: the constructor, loadModel, processNode, processMesh and         *)
(* loadMatTextures.  A file path is the sequence of its segments between   *)
(* '/' characters.  Of a mesh only its textures are kept.                  *)
(***************************************************************************)
\* paths of model files
ModelPaths == { << "cube.obj" >>, << "Data", "sponza", "sponza.obj" >> }

\* materials: the texture file names of type DIFFUSE and of type SPECULAR
Materials ==
    { [diffuse |-> << >>, specular |-> << >>],
      [diffuse |-> << "a.png" >>, specular |-> << >>],
      [diffuse |-> << "b.png" >>, specular |-> << "a.png" >>],
      [diffuse |-> << "a.png", "b.png" >>, specular |-> << "s.png" >>] }

\* scenes the importer returns: the materials of the meshes, in the order in
\* which processNode visits the meshes of the node tree
Scenes == UNION { [1 .. n -> Materials] : n \in 0 .. MaxMeshes }

\* Texture(path, samplerName, REPEAT)
Texture(path, samplerName) == [path |-> path, sampler |-> samplerName]

\* Texture::GetPath
GetPath(texture) == texture.path

\* a const char*: the buffer it points to and the characters in that buffer
CStr(buffer, chars) == [addr |-> buffer, chars |-> chars]

\* loadedTex.GetPath().c_str(), for the texture at position i of m_loadedTextures
LoadedPathCStr(loaded, i) == CStr(<< "Texture::path", i >>, GetPath(loaded[i]))

\* str.C_Str(), for the aiString local to the loop body
AiStringCStr(str) == CStr(<< "aiString", 0 >>, << str >>)

\* p == q on two const char*: whether they point to the same buffer
PointerEquals(p, q) == p.addr = q.addr

\* the loop over m_loadedTextures: position of the first texture the comparison
\* accepts (0: none, skip stays false)
FindLoaded(loaded, str) ==
    LET hits == { i \in 1 .. Len(loaded) :
                     PointerEquals(LoadedPathCStr(loaded, i), AiStringCStr(str)) }
    IN  IF hits = {} THEN 0 ELSE CHOOSE i \in hits : \A j \in hits : i <= j

\* one iteration of the loop of loadMatTextures over the textures of a type
LoadTexture(dir, acc, str, samplerName) ==
    IF FindLoaded(acc.loaded, str) # 0
    THEN [textures |-> Append(acc.textures, acc.loaded[FindLoaded(acc.loaded, str)]),
          loaded |-> acc.loaded]
    ELSE [textures |-> Append(acc.textures, Texture(dir \o << str >>, samplerName)),
          loaded |-> Append(acc.loaded, Texture(dir \o << str >>, samplerName))]

RECURSIVE loadMatTexturesFrom(_, _, _, _)
loadMatTexturesFrom(dir, acc, names, samplerName) ==
    IF names = << >>
    THEN acc
    ELSE loadMatTexturesFrom(dir, LoadTexture(dir, acc, Head(names), samplerName),
                             Tail(names), samplerName)

\* loadMatTextures(mat, type, samplerName): the textures returned and
\* m_loadedTextures afterwards
loadMatTextures(dir, loaded, names, samplerName) ==
    loadMatTexturesFrom(dir, [textures |-> << >>, loaded |-> loaded], names, samplerName)

\* processMesh: diffuse maps, then specular maps
processMesh(dir, loaded, material) ==
    LET diffuseMaps == loadMatTextures(dir, loaded, material.diffuse, "texture_diffuse")
        specularMaps == loadMatTextures(dir, diffuseMaps.loaded, material.specular,
                                        "texture_specular")
    IN  [mesh |-> [textures |-> diffuseMaps.textures \o specularMaps.textures],
         loaded |-> specularMaps.loaded]

\* processNode: every mesh is processed and pushed to m_meshes
RECURSIVE processNode(_, _, _)
processNode(dir, st, scene) ==
    IF scene = << >>
    THEN st
    ELSE LET done == processMesh(dir, st.loaded, Head(scene))
         IN  processNode(dir,
                         [meshes |-> Append(st.meshes, done.mesh), loaded |-> done.loaded],
                         Tail(scene))

\* Path.substr(0, Path.find_last_of('/')): the whole path when it has no '/'
Directory(path) == IF Len(path) = 1 THEN path ELSE SubSeq(path, 1, Len(path) - 1)

\* Model::Model(Path, Name, flipWindingOrder) with the loadModel call it makes
ModelConstruct(paths, scenes) ==
    /\ modelLoaded = "no"
    /\ \E path \in paths, imported \in BOOLEAN, scene \in scenes :
        IF ~imported
        THEN \* the importer returned no complete scene
             /\ modelLoaded' = "false"
             /\ m_path' = path
             /\ UNCHANGED << m_meshes, m_loadedTextures >>
        ELSE LET st == processNode(Directory(path),
                                   [meshes |-> m_meshes, loaded |-> m_loadedTextures],
                                   scene)
             IN  /\ modelLoaded' = "true"
                 /\ m_path' = Directory(path)
                 /\ m_meshes' = st.meshes
                 /\ m_loadedTextures' = st.loaded
    /\ UNCHANGED renderVars

(***************************************************************************)
(* Specifications.                                                         *)
(***************************************************************************)
\* the pipeline: every configuration and driver outcome, one stream of draws
Next ==
    \/ RenderSystemInit(Configs(Viewports, ProgramLists), DriverOutcomes,
                        DrawStreams({ << 1, 2, 3 >> }))
    \/ InitView
    \/ Update(Viewports, { 1 }, ViewMatrices)
    \/ Render(RenderLists)
    \/ Shutdown

Spec == Init /\ [][Next]_vars

\* the light buffer: one configuration, every stream of draws and delta time
DeltaTimes == { 0, 1, 3, 15 }

NextLights ==
    \/ RenderSystemInit(Configs({ << 8, 8 >> }, { BasePrograms }), { AllCreated },
                        DrawStreams(DrawTriples))
    \/ Update({}, DeltaTimes, { "viewA" })

SpecLights == Init /\ [][NextLights]_vars

\* the model loader: every path and scene
NextModel == ModelConstruct(ModelPaths, Scenes)

SpecModel == Init /\ [][NextModel]_vars

(***************************************************************************)
(* Properties.                                                             *)
(***************************************************************************)
\* ceil(d / 8), the number of 8-pixel tiles that cover d pixels
CeilDiv8(d) == (d + 7) \div 8

\* Init has run to its end (the process may have shut down since)
InitDone == phase \in { "Initialized", "ShutDown" }

\* C1: the tile grid Init stores is (ceil(w/8), ceil(h/8)) for the width w and
\* height h it read from the renderer node.
C1_InitGridIsCeil ==
    InitDone =>
        /\ m_workGroupsX = CeilDiv8(config.width)
        /\ m_workGroupsY = CeilDiv8(config.height)

\* the grid Init stored was the exact one
InitGridExact ==
    /\ WorkGroups(config.width) = CeilDiv8(config.width)
    /\ WorkGroups(config.height) = CeilDiv8(config.height)

\* C2: after Init and any Update and Render calls, the tile grid equals
\* (ceil(m_width/8), ceil(m_height/8)) for the current viewport.  Stated on the
\* runs in which Init stored the exact grid, so that a violation is one that
\* Update brings about.
C2_GridFollowsViewport ==
    (InitDone /\ InitGridExact) =>
        /\ m_workGroupsX = CeilDiv8(m_width)
        /\ m_workGroupsY = CeilDiv8(m_height)

\* the framebuffer bound when command i of the log is submitted
BoundFramebuffer(log, i) ==
    LET binds == { k \in 1 .. (i - 1) : log[k].op = "BindFramebuffer" }
    IN  IF binds = {}
        THEN "default"
        ELSE log[CHOOSE k \in binds : \A l \in binds : l <= k].fb

\* the pass command i belongs to: 1 depth draw, 2 culling dispatch, 3 shading
\* draw, 4 skybox, 5 post-process quad; -1 for a draw on a framebuffer that is
\* not its pass's, and 0 for a command that draws nothing
PassOf(log, i) ==
    LET fb == BoundFramebuffer(log, i)
    IN  CASE log[i].op = "DrawElements" ->
                 IF fb = "depth" THEN 1 ELSE IF fb = "hdr" THEN 3 ELSE -1
          [] log[i].op = "DispatchCompute" -> 2
          [] log[i].op = "SkyboxDraw" -> IF fb = "hdr" THEN 4 ELSE -1
          [] log[i].op = "DrawArrays" -> IF fb = "default" THEN 5 ELSE -1
          [] OTHER -> 0

Submitted(log, pass) == { i \in 1 .. Len(log) : PassOf(log, i) = pass }

\* the four passes of one frame in their fixed order, all of them run: every
\* depth-pass draw (depth framebuffer bound) before the one culling dispatch,
\* the dispatch before every shading draw (HDR framebuffer bound), the skybox
\* after the shading draws and the post-process quad on framebuffer 0 last;
\* each pass draws the whole render list
PassesInOrder(log) ==
    /\ Submitted(log, -1) = {}
    /\ \A i, j \in 1 .. Len(log) :
          (i < j /\ PassOf(log, i) > 0 /\ PassOf(log, j) > 0)
              => PassOf(log, i) <= PassOf(log, j)
    /\ Cardinality(Submitted(log, 2)) = 1
    /\ Cardinality(Submitted(log, 4)) = 1
    /\ Submitted(log, 5) = { Len(log) }
    /\ Cardinality(Submitted(log, 1)) = Cardinality(Submitted(log, 3))
    /\ \A i \in Submitted(log, 1) :
          \E j \in Submitted(log, 3) :
              log[j].x = log[i].x /\ log[j].y = log[i].y

\* every name Render looks up is in the shader cache
AllProgramsCached ==
    \A i \in 1 .. Len(RequiredPrograms) : CacheAt(m_shaderCache, RequiredPrograms[i]).found

\* C3: every Render call submits its four passes in the fixed order and runs
\* all of them, whatever configuration Init accepted.
C3_EveryRenderRunsAllPasses ==
    renderResult # "none" => PassesInOrder(glLog)

\* C3, on the Render calls that find their four programs: such a call returns
\* normally with the four passes in order; a call that misses a program throws
\* and has submitted no draw and no dispatch of any pass.
C3_PassOrder ==
    renderResult # "none" =>
        IF AllProgramsCached
        THEN renderResult = "ok" /\ PassesInOrder(glLog)
        ELSE /\ renderResult = "out_of_range"
             /\ \A i \in 1 .. Len(glLog) : PassOf(glLog, i) = 0

\* a frame whose render list holds several meshes has been rendered
C3_Witness ==
    /\ renderResult = "ok"
    /\ Cardinality(Submitted(glLog, 1)) >= 3
    /\ Cardinality(Submitted(glLog, 3)) >= 3

\* C4: once Shutdown has released the programs, looking up any of the names
\* Render uses fails with not-found.
C4_LookupFailsAfterShutdown ==
    phase = "ShutDown" =>
        \A i \in 1 .. Len(RequiredPrograms) :
            ~CacheAt(m_shaderCache, RequiredPrograms[i]).found

\* positions of the Program elements called name
ElementsNamed(programs, name) == { i \in 1 .. Len(programs) : programs[i].name = name }

FirstNamed(programs, name) ==
    CHOOSE i \in ElementsNamed(programs, name) :
        \A j \in ElementsNamed(programs, name) : i <= j

LastNamed(programs, name) ==
    CHOOSE i \in ElementsNamed(programs, name) :
        \A j \in ElementsNamed(programs, name) : j <= i

\* C5 as claimed: the cache holds, for every name of the configuration, the
\* program built from the last element of that name.
C5_LaterElementReplaces ==
    InitDone =>
        \A i \in 1 .. Len(config.programs) :
            LET name == config.programs[i].name
            IN  /\ CacheAt(m_shaderCache, name).found
                /\ CacheAt(m_shaderCache, name).shaders
                       = config.programs[LastNamed(config.programs, name)].shaders

\* C5 as amended: the cache holds one entry for every name of the configuration
\* and no other, and it is the program built from the first element of that name.
C5_FirstElementKept ==
    InitDone =>
        /\ DOMAIN m_shaderCache = { config.programs[i].name : i \in 1 .. Len(config.programs) }
        /\ \A i \in 1 .. Len(config.programs) :
              LET name == config.programs[i].name
              IN  m_shaderCache[name].shaders
                      = config.programs[FirstNamed(config.programs, name)].shaders

\* Init has compiled a configuration that lists one name twice, with different
\* shader sources
C5_Witness ==
    /\ InitDone
    /\ \E i, j \in 1 .. Len(config.programs) :
          /\ i < j
          /\ config.programs[i].name = config.programs[j].name
          /\ config.programs[i].shaders # config.programs[j].shaders
          /\ m_shaderCache[config.programs[i].name].shaders = config.programs[i].shaders

\* v wrapped modulo the vertical span into the vertical bounds
WrapVertical(v) ==
    LET min == LIGHT_MIN_BOUNDS[2]
        max == LIGHT_MAX_BOUNDS[2]
    IN  min + ((v - min) % (max - min))

\* every Update so far was given the same delta time
SameDelta == \A i, j \in 1 .. Len(updates) : updates[i] = updates[j]

\* C6: after N calls of UpdateLights with one dt, a light that started at y0 is
\* at y0 - 4.5 * dt * N wrapped modulo the vertical span into the vertical bounds.
C6_VerticalIsWrappedDescent ==
    (phase = "Initialized" /\ updates # << >> /\ SameDelta) =>
        \A i \in 1 .. Len(lights) :
            lights[i].Position[2]
                = WrapVertical(lights0[i].Position[2] - updates[1] * Len(updates))

\* C7: every light lies within [LIGHT_MIN_BOUNDS, LIGHT_MAX_BOUNDS] on every
\* axis, after Init and after any Update calls.
C7_LightsInBounds ==
    \A i \in 1 .. Len(lights) :
        \A a \in 1 .. 3 :
            /\ LIGHT_MIN_BOUNDS[a] <= lights[i].Position[a]
            /\ lights[i].Position[a] <= LIGHT_MAX_BOUNDS[a]

\* C8: an Update told of a resize to (w, h) leaves the stored size, the
\* projection matrix, the projection half of the uniform buffer, the viewport and
\* the depth attachment of the depth framebuffer at (w, h); an Update told of
\* none leaves them as they were.
C8_ResizeReachesAll ==
    [][ Len(updates') = Len(updates) + 1 =>
          LET rs == resized'
          IN  IF rs # NoResize
              THEN /\ m_width' = rs[1]
                   /\ m_height' = rs[2]
                   /\ m_projMatrix' = GetProjMatrix(rs[1], rs[2])
                   /\ ubo'.proj = GetProjMatrix(rs[1], rs[2])
                   /\ viewport' = rs
                   /\ m_depthFBO'.depth = rs
              ELSE /\ UNCHANGED << m_width, m_height, m_projMatrix, viewport, m_depthFBO >>
                   /\ ubo'.proj = ubo.proj ]_vars

\* C9: Init does not complete when the matrices uniform buffer, the light buffer
\* or the visible-light index buffer could not be created (handle 0).
C9_InitNeedsEveryBuffer ==
    phase = "Initialized" =>
        /\ m_uboMatrices # NoHandle
        /\ m_lightBuffer # NoHandle
        /\ m_visibleLightIndicesBuffer # NoHandle

\* C10: whatever resizes Update has handled, the HDR framebuffer and its color
\* and depth attachments have the size Init gave them, and the light buffer and
\* the index buffer the length Init allocated.
C10_ResizeLeavesHDRAndBuffers ==
    InitDone =>
        /\ m_hdrFBO =
              [w |-> config.width, h |-> config.height,
               color |-> << config.width, config.height >>,
               depth |-> << config.width, config.height >>]
        /\ lightBufferLen = Allocated(m_lightBuffer, MAX_NUM_LIGHTS)
        /\ visibleIndicesLen =
              Allocated(m_visibleLightIndicesBuffer,
                        WorkGroups(config.width) * WorkGroups(config.height) * MAX_NUM_LIGHTS)

\* an Update has handled a resize to a size other than Init's
C10_Witness ==
    /\ phase = "Initialized"
    /\ updates # << >>
    /\ resized # NoResize
    /\ << m_width, m_height >> = resized
    /\ << m_width, m_height >> # << config.width, config.height >>
    /\ m_depthFBO.depth = << m_width, m_height >>

\* C11: after Init and any Update and Render calls, the visible-light index
\* buffer holds numberOfTiles * MAX_NUM_LIGHTS entries, numberOfTiles being
\* m_workGroupsX * m_workGroupsY, the grid Render dispatches.
C11_IndexBufferCoversGrid ==
    InitDone =>
        visibleIndicesLen = m_workGroupsX * m_workGroupsY * MAX_NUM_LIGHTS

\* C12: m_loadedTextures never holds two textures with the same path: a path
\* already loaded is reused, not loaded again.
C12_NoDuplicatePaths ==
    \A i, j \in 1 .. Len(m_loadedTextures) :
        i # j => GetPath(m_loadedTextures[i]) # GetPath(m_loadedTextures[j])

====
